---- MODULE Spec2Model ----
(***************************************************************************)
(* Pull-request history retrieval and caching of uniliner/SecurityParser.  *)
(*                                                                         *)
(* src/pull_request_fetcher.py: __fetch (the paginated GET and its merge), *)
(* __get_cached_file, fetch_pr and __fetch_pr (single-PR assembly and the  *)
(* append to the cache file).  src/githubSearch.py: the rate governor and  *)
(* the search traversal.  src/main.py: the command line's three forms and  *)
(* the batch loop.  src/bot.py: send and chat_history.                     *)
(*                                                                         *)
(* The specifications share the variables:                                 *)
(*   SpecFetch       one __fetch call at a time, fed arbitrary pages;      *)
(*   Spec            fetch_pr calls, one at a time, against the upstream;  *)
(*   SpecAssemble    Spec plus direct calls of __fetch_pr;                 *)
(*   SpecRepos       fetch_pr calls for several repositories;              *)
(*   SpecMain        Spec plus the repository form of the command line;    *)
(*   SpecBatch       main.py's batch loop and single-PR form with bot.send;*)
(*   SpecConcurrent  two runs of the program calling fetch_pr at once;     *)
(*   SpecSearch      search_security_prs with check_rate_limit.            *)
(* One step of a call in progress is one loop iteration of __fetch (one    *)
(* HTTP request and everything the code does until the next request).      *)
(***************************************************************************)
EXTENDS Integers, Sequences, FiniteSets, TLC

VARIABLES
    fs,            \* the cache directory: file name -> stored JSON array
    locale,        \* the platform's default text encoding
    pc,            \* "idle" | "fetch" | "pr" | "commits" | "commit"
    call,          \* the call in progress or last made
    full_url,      \* __fetch: URL of the next request
    rel,           \* __fetch: loop variable rel
    responseJson,  \* __fetch: accumulated value
    requests,      \* URLs requested since the call began, in order
    arrived,       \* responses merged by the current __fetch, in order
    outcome,       \* "none" | "returned" | "raised" : how the last call ended
    error,         \* the exception of a raised call
    pr,            \* __fetch_pr: the pull request as __fetch returned it
    pr_obj,        \* __fetch_pr: the record under assembly
    commits,       \* __fetch_pr: the commit listing
    idx,           \* __fetch_pr: position of the for loop over commits
    result,        \* value returned by fetch_pr / __fetch_pr
    missed,        \* what the calls of fetch_pr returned after a cache miss, so far
    fsAtCall,      \* the cache directory when the call began
    GITHUB_TOKEN,  \* pull_request_fetcher.GITHUB_TOKEN = os.getenv("GITHUB_TOKEN")
    context,       \* __fetch_pr / __fetch: the Context the requests are made with
    corrupt,       \* cache files whose bytes are no complete JSON document
    procs,         \* concurrent runs of the program: process -> its position and locals
    rate_limit_remaining,  \* GitHubSecurityScanner.rate_limit_remaining
    rate_limit_reset,      \* GitHubSecurityScanner.rate_limit_reset
    now,           \* the clock time.time() reads, in seconds
    search_page,   \* search_security_prs: page
    spc,           \* search_security_prs: "idle" | "check" | "get" | "done"
    slept,         \* seconds the last check_rate_limit asked time.sleep for (0: no sleep)
    checkedAt,     \* the clock when the last check_rate_limit read it
    searched,      \* pages requested by the traversal, in order
    received,      \* the last response the scanner received
    yielded,       \* items the traversal yielded, in order
    mpc,           \* main.py: "idle" | "read" | "fetch" | "analyze" | "done" | "aborted"
    mode,          \* main.py: "none" | "batch" | "single", the branch the command line chose
    line,          \* main.py: lines of potential_prs.txt read so far
    limit,         \* main.py: limit
    printed,       \* main.py: what the run printed about its entries, in order
    raised,        \* main.py: the exception that ended the run
    chat_history,  \* bot.chat_history
    invoked        \* bot.send: the messages of the last model.invoke(chat_history)

searchVars == <<rate_limit_remaining, rate_limit_reset, now, search_page, spc, slept, checkedAt,
                searched, received, yielded>>
\* What the calls of pull_request_fetcher.py made one at a time leave alone.
beyondFetcher == <<GITHUB_TOKEN, corrupt, procs, searchVars>>

\* The state of main.py and bot.py.
mainVars == <<mpc, mode, line, limit, printed, raised, chat_history, invoked>>

vars == <<fs, locale, pc, call, full_url, rel, responseJson, requests, arrived,
          outcome, error, pr, pr_obj, commits, idx, result, missed, fsAtCall, context,
          beyondFetcher, mainVars>>

fetchVars == <<full_url, rel, responseJson, arrived>>
asmVars == <<pr, pr_obj, commits, idx>>

-----------------------------------------------------------------------------
(* Bounds of the model.                                                    *)

\* Pages one __fetch may be served before the upstream stops sending "next".
MaxPages == 3
\* Items the upstream puts on one page of a listing or of a commit's files.
PerPage == 1
\* Records the cache file may hold before further assembly is not started.
MaxCache == 3

-----------------------------------------------------------------------------
(* JSON values.  A list is [kind |-> "list", items |-> <<...>>]; an object *)
(* is a record with kind = "obj" and its fields.                           *)

JList(s) == [kind |-> "list", items |-> s]
EmptyList == JList(<<>>)
IsList(v) == v.kind = "list"
HasKey(v, k) == v.kind = "obj" /\ k \in DOMAIN v

\* Key order of an object, as iterating a dict yields it.
Keys(v) ==
    IF "sha" \in DOMAIN v THEN <<"sha", "commit", "files">>
    ELSE <<"number", "title", "body", "commits_url">>

NoUrl == <<>>
Base == "https://api.github.com/repos/"

RECURSIVE Concat(_)
Concat(ss) == IF ss = <<>> THEN <<>> ELSE Head(ss) \o Concat(Tail(ss))

-----------------------------------------------------------------------------
(* __fetch, lines 25-70.                                                   *)

\* Lines 33-38: the URL of the first request.
FullUrl(owner, repo, endpoint) ==
    IF endpoint[1] = Base THEN endpoint
    ELSE LET u == <<Base>> \o owner \o <<"/">> \o repo \o <<"/">> \o endpoint
         IN  IF endpoint[1] = "pulls" THEN u \o <<"?state=all">> ELSE u

\* Line 46: raise_for_status raises on 4xx and 5xx.
\* (RaisesForClientErrors is the faulty variant that lets a 5xx through.)
RaisesForClientErrors(status) == status >= 400 /\ status < 500

RaisesForStatus(status) == status >= 400 /\ status < 600

\* Lines 47-57: merge one page into the accumulated value.
\* [err |-> "" , value |-> v] or [err |-> e, value |-> accumulated unchanged].
\* Three faulty variants come first: the latest page adopted, the sha comparison
\* left out, a list page put in front.
MergePageReplaceAlways(acc, page) == [err |-> "", value |-> page]

MergePageNoShaCheck(acc, page) ==
    IF acc = EmptyList THEN [err |-> "", value |-> page]
    ELSE IF ~IsList(acc) THEN
        IF ~HasKey(acc, "sha") THEN [err |-> "KeyError", value |-> acc]
        ELSE IF ~HasKey(page, "sha") THEN
            [err |-> IF IsList(page) THEN "TypeError" ELSE "KeyError", value |-> acc]
        ELSE [err |-> "", value |-> [acc EXCEPT !.files = @ \o page.files]]
    ELSE IF IsList(page) THEN [err |-> "", value |-> JList(acc.items \o page.items)]
    ELSE [err |-> "", value |-> JList(acc.items \o Keys(page))]

MergePagePrepend(acc, page) ==
    IF acc = EmptyList THEN [err |-> "", value |-> page]
    ELSE IF ~IsList(acc) THEN
        IF ~HasKey(acc, "sha") THEN [err |-> "KeyError", value |-> acc]
        ELSE IF ~HasKey(page, "sha") THEN
            [err |-> IF IsList(page) THEN "TypeError" ELSE "KeyError", value |-> acc]
        ELSE IF acc.sha = page.sha THEN
            [err |-> "", value |-> [acc EXCEPT !.files = page.files \o @]]
        ELSE [err |-> "Exception", value |-> acc]
    ELSE IF IsList(page) THEN [err |-> "", value |-> JList(page.items \o acc.items)]
    ELSE [err |-> "", value |-> JList(acc.items \o Keys(page))]

MergePage(acc, page) ==
    IF acc = EmptyList THEN [err |-> "", value |-> page]
    ELSE IF ~IsList(acc) THEN
        \* responseJson['sha'] == resObj['sha']
        IF ~HasKey(acc, "sha") THEN [err |-> "KeyError", value |-> acc]
        ELSE IF ~HasKey(page, "sha") THEN
            [err |-> IF IsList(page) THEN "TypeError" ELSE "KeyError", value |-> acc]
        ELSE IF acc.sha = page.sha THEN
            [err |-> "", value |-> [acc EXCEPT !.files = @ \o page.files]]
        ELSE [err |-> "Exception", value |-> acc]
    ELSE IF IsList(page) THEN [err |-> "", value |-> JList(acc.items \o page.items)]
    \* list += dict extends the list with the dict's keys
    ELSE [err |-> "", value |-> JList(acc.items \o Keys(page))]

\* Lines 60-69: the Link header is a sequence of parts <url>; rel="name".
\* Line 64: the first part containing rel="next", 0 for None.
NextRel(parts) ==
    IF \E i \in 1..Len(parts) : parts[i].rel = "next"
    THEN CHOOSE i \in 1..Len(parts) :
            /\ parts[i].rel = "next"
            /\ \A j \in 1..(i - 1) : parts[j].rel # "next"
    ELSE 0

\* Lines 58-69: rel and full_url after a page with these headers.
\* (AfterHeadersKeepUrl is the faulty variant that leaves out line 68.)
AfterHeadersKeepUrl(headers, url) ==
    IF "link" \in DOMAIN headers /\ NextRel(headers.link) # 0
    THEN [rel |-> headers.link[NextRel(headers.link)].rel, url |-> url]
    ELSE [rel |-> "last", url |-> url]

AfterHeaders(headers, url) ==
    IF "link" \in DOMAIN headers /\ NextRel(headers.link) # 0
    THEN LET m == headers.link[NextRel(headers.link)]
         IN  [rel |-> m.rel, url |-> m.url]
    ELSE [rel |-> "last", url |-> url]


\* One loop iteration, lines 45-69: the request has been answered by resp.
\* status: "loop" (rel = 'next'), "returned" (line 70) or "raised".
FetchIter(acc, url, resp) ==
    IF RaisesForStatus(resp.status)
    THEN [status |-> "raised", err |-> [type |-> "HTTPError", status |-> resp.status],
          value |-> acc, url |-> url, rel |-> "next"]
    ELSE LET m == MergePage(acc, resp.body)
             h == AfterHeaders(resp.headers, url)
         IN  IF m.err # ""
             THEN [status |-> "raised", err |-> [type |-> m.err, status |-> 0],
                   value |-> acc, url |-> url, rel |-> "next"]
             ELSE [status |-> IF h.rel = "next" THEN "loop" ELSE "returned",
                   err |-> [type |-> "", status |-> 0],
                   value |-> m.value, url |-> h.url, rel |-> h.rel]

NoError == [type |-> "", status |-> 0]

-----------------------------------------------------------------------------
(* Text and its encodings.  A text is a sequence of code points; a stored  *)
(* text is the sequence of bytes json.dumps(..., ensure_ascii=False)       *)
(* .encode('utf-8') writes for it (lines 122-123).                         *)

Utf8Char(c) ==
    IF c < 128 THEN <<c>>
    ELSE IF c < 2048 THEN <<192 + (c \div 64), 128 + (c % 64)>>
    ELSE IF c < 65536 THEN
        <<224 + (c \div 4096), 128 + ((c \div 64) % 64), 128 + (c % 64)>>
    ELSE <<240 + (c \div 262144), 128 + ((c \div 4096) % 64),
           128 + ((c \div 64) % 64), 128 + (c % 64)>>

RECURSIVE Utf8(_)
Utf8(text) == IF text = <<>> THEN <<>> ELSE Utf8Char(Head(text)) \o Utf8(Tail(text))

\* Length of the UTF-8 sequence a lead byte starts.
Utf8Width(b) == IF b < 128 THEN 1 ELSE IF b < 224 THEN 2 ELSE IF b < 240 THEN 3 ELSE 4

Utf8Point(bs) ==
    IF Utf8Width(bs[1]) = 1 THEN bs[1]
    ELSE IF Utf8Width(bs[1]) = 2 THEN (bs[1] - 192) * 64 + (bs[2] - 128)
    ELSE IF Utf8Width(bs[1]) = 3
        THEN (bs[1] - 224) * 4096 + (bs[2] - 128) * 64 + (bs[3] - 128)
    ELSE (bs[1] - 240) * 262144 + (bs[2] - 128) * 4096 + (bs[3] - 128) * 64 + (bs[4] - 128)

\* open(..., encoding='utf-8') on bytes that Utf8 wrote.
RECURSIVE DecodeUtf8(_)
DecodeUtf8(bs) ==
    IF bs = <<>> THEN <<>>
    ELSE <<Utf8Point(bs)>> \o DecodeUtf8(SubSeq(bs, Utf8Width(bs[1]) + 1, Len(bs)))

\* Windows-1252, bytes 0x80..0x9F; 0 marks a byte the code page leaves undefined.
Cp1252High ==
    <<8364, 0, 8218, 402, 8222, 8230, 8224, 8225, 710, 8240, 352, 8249, 338, 0, 381, 0,
      0, 8216, 8217, 8220, 8221, 8226, 8211, 8212, 732, 8482, 353, 8250, 339, 0, 382, 376>>

Cp1252Char(b) == IF b < 128 \/ b >= 160 THEN b ELSE Cp1252High[b - 127]

Cp1252Defined(bs) == \A i \in 1..Len(bs) : Cp1252Char(bs[i]) # 0

Cp1252(bs) == [i \in 1..Len(bs) |-> Cp1252Char(bs[i])]

\* open(path, "r") decodes with the platform's default encoding (line 116).
DecodeDefinedIn(enc, bs) == enc = "utf-8" \/ Cp1252Defined(bs)
DecodeIn(enc, bs) == IF enc = "utf-8" THEN DecodeUtf8(bs) ELSE Cp1252(bs)

\* A text written (how = "encode") or read back in the encoding how.
Recode(how, t) == IF how = "encode" THEN Utf8(t) ELSE DecodeIn(how, t)

\* A cache record with every text of it written or read back.
MapFile(f, how) ==
    [FILE_NAME |-> Recode(how, f.FILE_NAME), FILE_PATCH |-> Recode(how, f.FILE_PATCH)]
MapCommit(c, how) ==
    [COMMIT_MESSAGE |-> Recode(how, c.COMMIT_MESSAGE),
     COMMIT_FILES |-> [i \in 1..Len(c.COMMIT_FILES) |-> MapFile(c.COMMIT_FILES[i], how)]]
MapRecord(r, how) ==
    [PR_NUMBER |-> r.PR_NUMBER, PR_TITLE |-> Recode(how, r.PR_TITLE),
     PR_BODY |-> Recode(how, r.PR_BODY),
     COMMITS |-> [i \in 1..Len(r.COMMITS) |-> MapCommit(r.COMMITS[i], how)]]

\* Every text of a stored record.
CommitTexts(c) ==
    {c.COMMIT_MESSAGE}
    \cup {c.COMMIT_FILES[j].FILE_NAME : j \in 1..Len(c.COMMIT_FILES)}
    \cup {c.COMMIT_FILES[j].FILE_PATCH : j \in 1..Len(c.COMMIT_FILES)}
RecordTexts(r) ==
    {r.PR_TITLE, r.PR_BODY} \cup UNION {CommitTexts(r.COMMITS[i]) : i \in 1..Len(r.COMMITS)}

\* Lines 122-123: json.dumps(cached_prs, ensure_ascii=False).encode('utf-8').
Dumps(prs) == [i \in 1..Len(prs) |-> MapRecord(prs[i], "encode")]

\* json.load of a file opened with encoding enc.
LoadDefined(enc, stored) ==
    \A i \in 1..Len(stored) : \A t \in RecordTexts(stored[i]) : DecodeDefinedIn(enc, t)
Load(enc, stored) == [i \in 1..Len(stored) |-> MapRecord(stored[i], enc)]

-----------------------------------------------------------------------------
(* The cache store.                                                        *)

\* Lines 19, 115, 116, 121: f'cache/{repo_owner}_{repo_name}_prs.json'.
CacheFileName(owner, repo) == <<"cache/">> \o owner \o <<"_">> \o repo \o <<"_prs.json">>

Exists(files, name) == name \in DOMAIN files

WriteFile(files, name, content) ==
    [f \in DOMAIN files \cup {name} |-> IF f = name THEN content ELSE files[f]]

\* __get_cached_file, lines 18-23: None when the file does not exist.
\* (GetCachedFileOrEmpty is the faulty variant that returns [] for a missing file.)
GetCachedFileOrEmpty(files, owner, repo) ==
    IF Exists(files, CacheFileName(owner, repo))
    THEN [none |-> FALSE, prs |-> Load("utf-8", files[CacheFileName(owner, repo)])]
    ELSE [none |-> FALSE, prs |-> <<>>]

GetCachedFile(files, owner, repo) ==
    IF Exists(files, CacheFileName(owner, repo))
    THEN [none |-> FALSE, prs |-> Load("utf-8", files[CacheFileName(owner, repo)])]
    ELSE [none |-> TRUE, prs |-> <<>>]

-----------------------------------------------------------------------------
(* State shared by the specifications.                                     *)

Owner == <<"o">>
Repo == <<"r">>

NoCall == [op |-> "none", owner |-> <<>>, repo |-> <<>>, endpoint |-> <<>>, number |-> 0]
NoPr == [kind |-> "obj", number |-> 0, title |-> <<>>, body |-> <<>>, commits_url |-> <<>>]
NoRecord == [PR_NUMBER |-> 0, PR_TITLE |-> <<>>, PR_BODY |-> <<>>, COMMITS |-> <<>>]
NoHeaders == [server |-> "GitHub.com"]
LinkHeaders(parts) == [server |-> "GitHub.com", link |-> parts]
ErrorBody == [kind |-> "obj", message |-> "error"]

\* Python's None and a value that is not None, for the attributes that may be None.
None == [none |-> TRUE, v |-> 0]
Some(v) == [none |-> FALSE, v |-> v]

\* Line 10: os.getenv("GITHUB_TOKEN") is None when the variable is not set.
NoToken == [none |-> TRUE, v |-> <<>>]
Token == [none |-> FALSE, v |-> <<"ghp">>]

\* Lines 12-16: Context.__init__ stores its three arguments.
Context(repo_owner, repo_name, token) ==
    [repo_owner |-> repo_owner, repo_name |-> repo_name, token |-> token]
NoContext == Context(<<>>, <<>>, NoToken)

\* Lines 27-30: the headers of every request; an f-string formats None as "None".
Headers(ctx) ==
    [Authorization |-> <<"token ">> \o (IF ctx.token.none THEN <<"None">> ELSE ctx.token.v),
     Accept |-> "application/vnd.github.v3+json"]

\* The scanner before its first response.
NoResponse == [status |-> 0, headers |-> NoHeaders, items |-> <<>>]

\* The runs of the program that may be under way at the same time.
Procs == {1, 2}
IdleProc == [pc |-> "idle", number |-> 0, cached_prs |-> <<>>, pr_obj |-> NoRecord,
             outcome |-> "none", error |-> "", alone |-> TRUE, wrote |-> FALSE]

\* src/bot.py, lines 20-22: the three system messages chat_history starts with.
Message3(role, content, record) == [role |-> role, content |-> content, pr |-> record]
SystemMessages ==
    <<Message3("system", "you are a java spring security engineer", NoRecord),
      Message3("system", "system1", NoRecord),
      Message3("system", "system2", NoRecord)>>

\* src/main.py, line 21: limit = 100.
Limit == 100

\* The state before any call, on a platform whose default encoding is enc, with
\* the environment variable GITHUB_TOKEN as given.
StartWith(enc, token) ==
    /\ mpc = "idle"
    /\ mode = "none"
    /\ line = 0
    /\ limit = Limit
    /\ printed = <<>>
    /\ raised = NoError
    /\ chat_history = SystemMessages
    /\ invoked = <<>>
    /\ GITHUB_TOKEN = token
    /\ context = NoContext
    /\ corrupt = {}
    /\ procs = [p \in Procs |-> IdleProc]
    /\ rate_limit_remaining = None
    /\ rate_limit_reset = None
    /\ now = 0
    /\ search_page = 0
    /\ spc = "idle"
    /\ slept = 0
    /\ checkedAt = 0
    /\ searched = <<>>
    /\ received = NoResponse
    /\ yielded = <<>>
    /\ fs = [f \in {} |-> <<>>]
    /\ locale = enc
    /\ pc = "idle"
    /\ call = NoCall
    /\ full_url = NoUrl
    /\ rel = "next"
    /\ responseJson = EmptyList
    /\ requests = <<>>
    /\ arrived = <<>>
    /\ outcome = "none"
    /\ error = NoError
    /\ pr = NoPr
    /\ pr_obj = NoRecord
    /\ commits = <<>>
    /\ idx = 0
    /\ result = NoRecord
    /\ missed = {}
    /\ fsAtCall = [f \in {} |-> <<>>]

Start(enc) == StartWith(enc, Token)

-----------------------------------------------------------------------------
(* SpecFetch: __fetch called on its own, each request answered by any      *)
(* response of FetchResponses.                                             *)

FetchEndpoints == {<<"pulls">>, <<"commits">>, <<Base, "o/r/commits/s1">>}
PageA == <<Base, "o/r/x?page=A">>
PageB == <<Base, "o/r/x?page=B">>

ListBodies == {JList(<<>>), JList(<<"a">>), JList(<<"b">>), JList(<<"a", "b">>)}
ObjBodies ==
    {[kind |-> "obj", sha |-> s, commit |-> m, files |-> f] :
        s \in {"s1", "s2"}, m \in {"m1", "m2"}, f \in {<<"a">>, <<"b">>}}
FetchBodies == ListBodies \cup ObjBodies

HeadersWithNext ==
    {LinkHeaders(<<[url |-> PageA, rel |-> "next"]>>),
     LinkHeaders(<<[url |-> PageA, rel |-> "prev"], [url |-> PageB, rel |-> "next"],
                   [url |-> PageA, rel |-> "last"]>>)}
HeadersWithoutNext ==
    {NoHeaders,
     LinkHeaders(<<[url |-> PageA, rel |-> "prev"], [url |-> PageB, rel |-> "last"]>>)}

\* The upstream stops sending "next" on the MaxPages-th page.
FetchResponses(more) ==
    {[status |-> 200, body |-> b, headers |-> h] :
        b \in FetchBodies,
        h \in IF more THEN HeadersWithNext \cup HeadersWithoutNext ELSE HeadersWithoutNext}
    \cup {[status |-> st, body |-> ErrorBody, headers |-> NoHeaders] : st \in {404, 500}}

\* __fetch(context, endpoint) is entered: lines 26-42.
CallFetch(owner, repo, endpoint) ==
    /\ pc = "idle"
    /\ pc' = "fetch"
    /\ call' = [op |-> "__fetch", owner |-> owner, repo |-> repo,
                endpoint |-> endpoint, number |-> 0]
    /\ full_url' = FullUrl(owner, repo, endpoint)
    /\ rel' = "next"
    /\ responseJson' = EmptyList
    /\ requests' = <<>>
    /\ arrived' = <<>>
    /\ outcome' = "none"
    /\ error' = NoError
    /\ fsAtCall' = fs
    /\ result' = NoRecord
    /\ UNCHANGED missed
    /\ context' = Context(owner, repo, GITHUB_TOKEN)
    /\ UNCHANGED <<fs, locale, pr, pr_obj, commits, idx, beyondFetcher>>

\* One iteration of the while loop, lines 44-69, and the return of line 70.
FetchLoop(resp) ==
    /\ pc = "fetch"
    /\ rel = "next"
    /\ LET it == FetchIter(responseJson, full_url, resp)
       IN  /\ requests' = Append(requests, full_url)
           /\ arrived' = Append(arrived, resp)
           /\ responseJson' = it.value
           /\ full_url' = it.url
           /\ rel' = it.rel
           /\ pc' = IF it.status = "loop" THEN "fetch" ELSE "idle"
           /\ outcome' = IF it.status = "loop" THEN "none" ELSE it.status
           /\ error' = it.err
    /\ UNCHANGED <<fs, locale, call, pr, pr_obj, commits, idx, result, missed, fsAtCall, context,
                   beyondFetcher>>

InitFetch == Start("utf-8")

NextFetch ==
    \/ \E e \in FetchEndpoints : CallFetch(Owner, Repo, e) /\ UNCHANGED mainVars
    \/ \E resp \in FetchResponses(Len(requests) + 1 < MaxPages) :
          FetchLoop(resp) /\ UNCHANGED mainVars

SpecFetch == InitFetch /\ [][NextFetch]_vars

-----------------------------------------------------------------------------
(* Claims about __fetch, checked under SpecFetch.                          *)

FetchReturned == call.op = "__fetch" /\ pc = "idle" /\ outcome = "returned"
AllListPages == \A k \in 1..Len(arrived) : arrived[k].status = 200 /\ IsList(arrived[k].body)
AllObjectPages ==
    \A k \in 1..Len(arrived) : arrived[k].status = 200 /\ HasKey(arrived[k].body, "sha")
PageItems(from, to) == Concat([k \in 1..(to - from + 1) |-> arrived[from + k - 1].body.items])
PageFiles(from, to) == Concat([k \in 1..(to - from + 1) |-> arrived[from + k - 1].body.files])
HasNextLink(headers) ==
    "link" \in DOMAIN headers /\ \E i \in 1..Len(headers.link) : headers.link[i].rel = "next"
NextLinkUrl(headers) ==
    headers.link[CHOOSE i \in 1..Len(headers.link) : headers.link[i].rel = "next"].url
HasOtherLink(headers) ==
    "link" \in DOMAIN headers /\ \E i \in 1..Len(headers.link) : headers.link[i].rel # "next"

\* C1: when every page served to one __fetch call is a list, the value returned
\* is the concatenation of the pages' items in arrival order.
C1_ListPagesConcatenated ==
    (FetchReturned /\ AllListPages) => responseJson = JList(PageItems(1, Len(arrived)))

\* C1 witness: three list pages, the first and the last non-empty and different,
\* have been merged and returned.
C1_Witness ==
    /\ FetchReturned /\ AllListPages
    /\ Len(arrived) = 3
    /\ arrived[1].body.items = <<"b">>
    /\ arrived[2].body.items = <<>>
    /\ arrived[3].body.items = <<"a", "b">>

\* C2: when every page served to one __fetch call is an object with the same sha,
\* the returned object's files are the pages' files concatenated in arrival order
\* and its other fields are the first page's.
C2_SameShaObjectsMerged ==
    (/\ FetchReturned /\ AllObjectPages
     /\ \A k \in 1..Len(arrived) : arrived[k].body.sha = arrived[1].body.sha)
    => /\ responseJson.files = PageFiles(1, Len(arrived))
       /\ responseJson.sha = arrived[1].body.sha
       /\ responseJson.commit = arrived[1].body.commit
       /\ DOMAIN responseJson = DOMAIN arrived[1].body

\* C2 witness: three object pages of one sha whose other field differs between the
\* first page and the later ones have been merged and returned.
C2_Witness ==
    /\ FetchReturned /\ AllObjectPages
    /\ Len(arrived) = 3
    /\ \A k \in 1..3 : arrived[k].body.sha = "s1"
    /\ arrived[1].body.commit = "m1" /\ arrived[2].body.commit = "m2"
    /\ arrived[1].body.files = <<"b">> /\ arrived[3].body.files = <<"a">>

\* A continuation page of an object-typed fetch whose sha differs from the first page's.
MismatchAt(k) ==
    /\ k > 1 /\ k <= Len(arrived)
    /\ HasKey(arrived[1].body, "sha") /\ arrived[1].status = 200
    /\ HasKey(arrived[k].body, "sha") /\ arrived[k].status = 200
    /\ arrived[k].body.sha # arrived[1].body.sha

\* C3: a continuation page of an object-typed fetch with another sha than the first
\* page's ends the call with an error: it is the last page requested, nothing is
\* returned, and the accumulated object holds the files of the earlier pages only.
C3_MismatchRaises ==
    call.op = "__fetch" =>
        \A k \in 1..Len(arrived) : MismatchAt(k) =>
            /\ k = Len(arrived) /\ Len(requests) = k
            /\ pc = "idle" /\ outcome = "raised" /\ error.type = "Exception"
            /\ responseJson.files = PageFiles(1, k - 1)
            /\ responseJson.sha = arrived[1].body.sha

\* C3 witness: the second page of an object-typed fetch carried another sha and
\* announced a further page; the call raised.
C3_Witness ==
    /\ call.op = "__fetch" /\ Len(arrived) = 2 /\ MismatchAt(2)
    /\ HasNextLink(arrived[2].headers)
    /\ outcome = "raised"

\* C4: the loop continues exactly while the page just merged carries a rel="next"
\* link: the first request goes to the endpoint's URL, request k+1 goes to the URL of
\* page k's "next" link, and __fetch returns at the first page without one, so that
\* N pages cost exactly N requests.
C4_StopsAtFirstPageWithoutNext ==
    call.op = "__fetch" =>
        /\ Len(requests) = Len(arrived)
        /\ requests # <<>> => requests[1] = FullUrl(call.owner, call.repo, call.endpoint)
        /\ \A k \in 1..(Len(requests) - 1) :
              /\ HasNextLink(arrived[k].headers)
              /\ requests[k + 1] = NextLinkUrl(arrived[k].headers)
        /\ (pc = "fetch" /\ arrived # <<>>) => HasNextLink(arrived[Len(arrived)].headers)
        /\ (pc = "idle" /\ outcome = "returned") => ~HasNextLink(arrived[Len(arrived)].headers)
        /\ (pc = "idle" /\ outcome = "raised") =>
              \/ RaisesForStatus(arrived[Len(arrived)].status)
              \/ error.type \in {"Exception", "KeyError", "TypeError"}

\* C4 witness: three pages, the first two with a "next" link among other links, the
\* third with a "last" link only, cost three requests and the call returned.
C4_Witness ==
    /\ FetchReturned
    /\ Len(requests) = 3
    /\ HasNextLink(arrived[1].headers) /\ HasOtherLink(arrived[2].headers)
    /\ HasOtherLink(arrived[3].headers) /\ ~HasNextLink(arrived[3].headers)
    /\ requests[2] # requests[3]

-----------------------------------------------------------------------------
(* The upstream REST API as fetch_pr sees it.  Pull requests 1 and 2 exist; *)
(* a pull request's title may change between two calls, and titles may hold *)
(* non-ASCII text.  Listings and a commit's files are served PerPage items a *)
(* page; any request may be answered 404 or 500, and a continuation page of *)
(* a commit may carry another sha.                                          *)

PRs == {1, 2}
CallNumbers == {1, 2, 3}

TitlePlain == <<116, 49>>            \* "t1"
TitleAccent == <<960>>               \* U+03C0, Greek small letter pi
Titles == {TitlePlain, TitleAccent}
BodyText == <<98>>                   \* "b"

\* Two more repositories, with names as main.py lines 30 and 68 accept them: the
\* text before the first "/" is the owner, the text up to ":" the repository.
RepoAlpha == [owner |-> <<"a">>, repo |-> <<"b", "_", "c">>]
RepoBeta == [owner |-> <<"a", "_", "b">>, repo |-> <<"c">>]
\* The description of a repository's pull requests tells the repository.
Body(owner, repo) ==
    IF owner = RepoAlpha.owner /\ repo = RepoAlpha.repo THEN <<98, 49>>        \* "b1"
    ELSE IF owner = RepoBeta.owner /\ repo = RepoBeta.repo THEN <<98, 50>>     \* "b2"
    ELSE BodyText
Message(c) == IF c = "c1" THEN <<109, 49>> ELSE IF c = "c2" THEN <<109, 50>> ELSE <<109, 51>>
PatchText == <<43, 120>>             \* "+x"

FileA == [filename |-> <<65>>, changes |-> 2, patch |-> PatchText]
FileB == [filename |-> <<66>>, changes |-> 0, patch |-> PatchText]
FileC == [filename |-> <<67>>, changes |-> 1]
FileD == [filename |-> <<68>>, changes |-> 1, patch |-> PatchText]
FileE == [filename |-> <<69>>, changes |-> 3, patch |-> <<45, 121>>]

WorldCommits(n) == IF n = 1 THEN <<"c1", "c2">> ELSE <<"c3">>
WorldFiles(c) ==
    IF c = "c1" THEN <<FileA, FileB, FileC, FileD>>
    ELSE IF c = "c2" THEN <<FileE>>
    ELSE <<FileD, FileA>>
Shas == {"c1", "c2", "c3"}

RepoUrl(owner, repo) == <<Base>> \o owner \o <<"/">> \o repo \o <<"/">>
PrUrl(owner, repo, n) == RepoUrl(owner, repo) \o <<"pulls", "/", ToString(n), "?state=all">>
PullsListUrl(owner, repo) == RepoUrl(owner, repo) \o <<"pulls", "?state=all">>
CommitsUrl(owner, repo, n) == RepoUrl(owner, repo) \o <<"pulls", "/", ToString(n), "/commits">>
CommitUrl(owner, repo, c) == RepoUrl(owner, repo) \o <<"commits", "/", c>>
PageUrl(url, k) == IF k = 1 THEN url ELSE url \o <<"?page=", ToString(k)>>

NumPages(list) == IF list = <<>> THEN 1 ELSE (Len(list) + PerPage - 1) \div PerPage
PageOf(list, k) ==
    SubSeq(list, (k - 1) * PerPage + 1,
           IF k * PerPage < Len(list) THEN k * PerPage ELSE Len(list))

\* The Link header of page k of n pages at url.
PageHeaders(url, k, n) ==
    IF n = 1 THEN NoHeaders
    ELSE IF k = 1 THEN
        LinkHeaders(<<[url |-> PageUrl(url, 2), rel |-> "next"],
                      [url |-> PageUrl(url, n), rel |-> "last"]>>)
    ELSE IF k < n THEN
        LinkHeaders(<<[url |-> PageUrl(url, k - 1), rel |-> "prev"],
                      [url |-> PageUrl(url, k + 1), rel |-> "next"],
                      [url |-> PageUrl(url, n), rel |-> "last"],
                      [url |-> PageUrl(url, 1), rel |-> "first"]>>)
    ELSE
        LinkHeaders(<<[url |-> PageUrl(url, k - 1), rel |-> "prev"],
                      [url |-> PageUrl(url, 1), rel |-> "first"]>>)

CommitEntry(owner, repo, c) ==
    [sha |-> c, commit |-> [message |-> Message(c)], url |-> CommitUrl(owner, repo, c)]

Failures == {[status |-> st, body |-> ErrorBody, headers |-> NoHeaders] : st \in {404, 500}}

PrDetailResponses(owner, repo, n) ==
    {[status |-> 200, headers |-> NoHeaders,
      body |-> [kind |-> "obj", number |-> n, title |-> t, body |-> Body(owner, repo),
                commits_url |-> CommitsUrl(owner, repo, n)]] : t \in Titles}

CommitsResponses(owner, repo, n, k) ==
    LET list == [i \in 1..Len(WorldCommits(n)) |-> CommitEntry(owner, repo, WorldCommits(n)[i])]
    IN  {[status |-> 200,
          headers |-> PageHeaders(CommitsUrl(owner, repo, n), k, NumPages(list)),
          body |-> JList(PageOf(list, k))]}

CommitResponses(owner, repo, c, k) ==
    {[status |-> 200,
      headers |-> PageHeaders(CommitUrl(owner, repo, c), k, NumPages(WorldFiles(c))),
      body |-> [kind |-> "obj", sha |-> sha, commit |-> [message |-> Message(c)],
                files |-> PageOf(WorldFiles(c), k)]] :
        sha \in IF k = 1 THEN {c} ELSE {c, "other"}}

CommitsPagesAt(owner, repo, n, url) ==
    UNION {IF url = PageUrl(CommitsUrl(owner, repo, n), k)
           THEN CommitsResponses(owner, repo, n, k) ELSE {} :
              k \in 1..NumPages(WorldCommits(n))}

CommitPagesAt(owner, repo, c, url) ==
    UNION {IF url = PageUrl(CommitUrl(owner, repo, c), k)
           THEN CommitResponses(owner, repo, c, k) ELSE {} :
              k \in 1..NumPages(WorldFiles(c))}

\* The responses the upstream may give to GET url.
Serve(owner, repo, url) ==
    Failures \cup
    UNION {IF url = PrUrl(owner, repo, n) THEN PrDetailResponses(owner, repo, n) ELSE {} :
              n \in PRs} \cup
    UNION {CommitsPagesAt(owner, repo, n, url) : n \in PRs} \cup
    UNION {CommitPagesAt(owner, repo, c, url) : c \in Shas}


-----------------------------------------------------------------------------
(* fetch_pr and __fetch_pr, lines 72-125.                                  *)

\* Line 106: filter(lambda f: f['changes'] > 0 and 'patch' in f, files).
\* (RetainedPatchOnly is the faulty variant that ignores the change count.)
RetainedPatchOnly(f) == "patch" \in DOMAIN f

Retained(f) == f.changes > 0 /\ "patch" \in DOMAIN f

\* Lines 103-110: the file objects of one commit.
\* (FilesArrayReversed is the faulty variant that puts each file in front.)
FilesArrayReversed(files) ==
    LET kept == SelectSeq(files, Retained)
    IN  [i \in 1..Len(kept) |-> [FILE_NAME |-> kept[Len(kept) + 1 - i].filename,
                                 FILE_PATCH |-> kept[Len(kept) + 1 - i].patch]]

FilesArray(files) ==
    LET kept == SelectSeq(files, Retained)
    IN  [i \in 1..Len(kept) |-> [FILE_NAME |-> kept[i].filename, FILE_PATCH |-> kept[i].patch]]

\* Lines 98-112: the commit object of one commit and its detail.
CommitObj(commit, content) ==
    [COMMIT_MESSAGE |-> commit.commit.message, COMMIT_FILES |-> FilesArray(content.files)]

\* Lines 77-78: the cached records with this PR_NUMBER.
Filtered(prs, n) == SelectSeq(prs, LAMBDA r : r.PR_NUMBER = n)

\* Lines 73-81: the cached record fetch_pr returns, if any.
\* (Faulty variants first: a comparison that never matches, and one that looks at
\* the last record only.)
CacheHitNever(prs, n) == [hit |-> FALSE, record |-> NoRecord]

CacheHitLastOnly(prs, n) ==
    IF prs = <<>> \/ prs[Len(prs)].PR_NUMBER # n THEN [hit |-> FALSE, record |-> NoRecord]
    ELSE [hit |-> TRUE, record |-> prs[Len(prs)]]

CacheHit(prs, n) ==
    IF prs = <<>> \/ Filtered(prs, n) = <<>> THEN [hit |-> FALSE, record |-> NoRecord]
    ELSE [hit |-> TRUE, record |-> Filtered(prs, n)[1]]

\* Lines 114-119: the records to write, read back with the default encoding.
\* (AppendedDeduplicating is the variant that skips a number already cached,
\* AppendedAlone the one that forgets what was read.)
AppendedDeduplicating(stored, enc, rec) ==
    LET old == Load(enc, stored)
    IN  IF Filtered(old, rec.PR_NUMBER) = <<>> THEN Append(old, rec) ELSE old

AppendedAlone(stored, enc, rec) == <<rec>>

Appended(stored, enc, rec) == Append(Load(enc, stored), rec)

\* A new __fetch(context, endpoint) begins inside the call in progress.
StartFetch(owner, repo, endpoint, at) ==
    /\ pc' = at
    /\ full_url' = FullUrl(owner, repo, endpoint)
    /\ rel' = "next"
    /\ responseJson' = EmptyList
    /\ arrived' = <<>>
    /\ outcome' = "none"
    /\ error' = NoError
    /\ UNCHANGED fs

\* The exception err leaves the call in progress.
\* (RaiseAfterSaving is the faulty variant that stores the partial record first.)
RaiseAfterSaving(err) ==
    /\ pc' = "idle"
    /\ outcome' = "raised"
    /\ error' = err
    /\ fs' = WriteFile(fs, CacheFileName(call.owner, call.repo),
                IF Exists(fs, CacheFileName(call.owner, call.repo))
                THEN Append(fs[CacheFileName(call.owner, call.repo)], MapRecord(pr_obj, "encode"))
                ELSE <<MapRecord(pr_obj, "encode")>>)
    /\ UNCHANGED <<result, missed, full_url, rel, responseJson>>

Raise(err) ==
    /\ pc' = "idle"
    /\ outcome' = "raised"
    /\ error' = err
    /\ UNCHANGED <<fs, result, missed, full_url, rel, responseJson>>

\* The while loop of __fetch goes round again.
Again(it, resp) ==
    /\ full_url' = it.url
    /\ rel' = it.rel
    /\ responseJson' = it.value
    /\ arrived' = Append(arrived, resp)
    /\ UNCHANGED <<pc, outcome, error, fs, result, missed>>

\* Lines 114-125: append rec to the cache file and return it.
Finish(rec) ==
    LET name == CacheFileName(call.owner, call.repo)
    IN  IF Exists(fs, name) /\ ~LoadDefined(locale, fs[name])
        THEN Raise([type |-> "UnicodeDecodeError", status |-> 0])
        ELSE /\ fs' = WriteFile(fs, name,
                        Dumps(IF Exists(fs, name) THEN Appended(fs[name], locale, rec)
                              ELSE <<rec>>))
             /\ result' = rec
             /\ missed' = IF call.op = "fetch_pr"
                           THEN missed \cup {[owner |-> call.owner, repo |-> call.repo,
                                                number |-> call.number, record |-> rec]}
                           ELSE missed
             /\ pc' = "idle"
             /\ outcome' = "returned"
             /\ error' = NoError
             /\ UNCHANGED <<full_url, rel, responseJson>>

\* __fetch_pr is entered: lines 84-86.
EnterFetchPr(op, owner, repo, n) ==
    /\ call' = [op |-> op, owner |-> owner, repo |-> repo, endpoint |-> <<>>, number |-> n]
    /\ requests' = <<>>
    /\ fsAtCall' = fs
    /\ pr' = NoPr
    /\ pr_obj' = NoRecord
    /\ commits' = <<>>
    /\ idx' = 0
    /\ result' = NoRecord
    /\ UNCHANGED missed
    /\ context' = Context(owner, repo, GITHUB_TOKEN)
    /\ StartFetch(owner, repo, <<"pulls", "/", ToString(n)>>, "pr")
    /\ UNCHANGED <<locale, beyondFetcher>>

\* fetch_pr(repo_owner, repo_name, pr_number), lines 72-81.
CallFetchPr(owner, repo, n) ==
    /\ pc = "idle"
    /\ LET cached == GetCachedFile(fs, owner, repo)
           found == CacheHit(cached.prs, n)
       IN  IF found.hit
           THEN /\ call' = [op |-> "fetch_pr", owner |-> owner, repo |-> repo,
                            endpoint |-> <<>>, number |-> n]
                /\ result' = found.record
                /\ UNCHANGED missed
                /\ outcome' = "returned"
                /\ error' = NoError
                /\ requests' = <<>>
                /\ arrived' = <<>>
                /\ fsAtCall' = fs
                /\ pr' = NoPr
                /\ pr_obj' = NoRecord
                /\ commits' = <<>>
                /\ idx' = 0
                /\ context' = NoContext
                /\ UNCHANGED <<fs, locale, pc, full_url, rel, responseJson, beyondFetcher>>
           ELSE /\ Len(cached.prs) < MaxCache
                /\ EnterFetchPr("fetch_pr", owner, repo, n)

\* __fetch_pr called directly.
CallAssemble(owner, repo, n) ==
    /\ pc = "idle"
    /\ Len(GetCachedFile(fs, owner, repo).prs) < MaxCache
    /\ EnterFetchPr("__fetch_pr", owner, repo, n)

\* Line 86 and lines 88-90: a page of the pull request's detail.
StepPr(resp) ==
    /\ pc = "pr"
    /\ requests' = Append(requests, full_url)
    /\ LET it == FetchIter(responseJson, full_url, resp)
       IN  CASE it.status = "raised" ->
                  Raise(it.err) /\ arrived' = Append(arrived, resp) /\ UNCHANGED asmVars
             [] it.status = "loop" -> Again(it, resp) /\ UNCHANGED asmVars
             [] OTHER ->
                  IF ~HasKey(it.value, "number")
                  THEN /\ Raise([type |-> "KeyError", status |-> 0])
                       /\ arrived' = Append(arrived, resp)
                       /\ UNCHANGED asmVars
                  ELSE /\ pr' = it.value
                       /\ pr_obj' = [pr_obj EXCEPT !.PR_NUMBER = it.value.number]
                       /\ StartFetch(call.owner, call.repo, it.value.commits_url, "commits")
                       /\ UNCHANGED <<commits, idx, result, missed>>
    /\ UNCHANGED <<locale, call, fsAtCall, context, beyondFetcher>>

\* Line 90, lines 91-100 and, for a pull request without commits, lines 114-125.
StepCommits(resp) ==
    /\ pc = "commits"
    /\ requests' = Append(requests, full_url)
    /\ LET it == FetchIter(responseJson, full_url, resp)
       IN  CASE it.status = "raised" ->
                  Raise(it.err) /\ arrived' = Append(arrived, resp) /\ UNCHANGED asmVars
             [] it.status = "loop" -> Again(it, resp) /\ UNCHANGED asmVars
             [] OTHER ->
                  LET rec == [pr_obj EXCEPT !.PR_TITLE = pr.title, !.PR_BODY = pr.body,
                                            !.COMMITS = <<>>]
                  IN  /\ commits' = it.value.items
                      /\ pr_obj' = rec
                      /\ pr' = pr
                      /\ IF it.value.items = <<>>
                         THEN /\ Finish(rec)
                              /\ arrived' = Append(arrived, resp)
                              /\ idx' = 0
                         ELSE /\ StartFetch(call.owner, call.repo, it.value.items[1].url, "commit")
                              /\ idx' = 1
                              /\ UNCHANGED <<result, missed>>
    /\ UNCHANGED <<locale, call, fsAtCall, context, beyondFetcher>>

\* Line 100, lines 101-112, then the next commit or lines 114-125.
StepCommit(resp) ==
    /\ pc = "commit"
    /\ requests' = Append(requests, full_url)
    /\ LET it == FetchIter(responseJson, full_url, resp)
       IN  CASE it.status = "raised" ->
                  Raise(it.err) /\ arrived' = Append(arrived, resp) /\ UNCHANGED asmVars
             [] it.status = "loop" -> Again(it, resp) /\ UNCHANGED asmVars
             [] OTHER ->
                  LET rec == [pr_obj EXCEPT
                                !.COMMITS = Append(@, CommitObj(commits[idx], it.value))]
                  IN  /\ pr_obj' = rec
                      /\ UNCHANGED <<pr, commits>>
                      /\ IF idx = Len(commits)
                         THEN /\ Finish(rec)
                              /\ arrived' = Append(arrived, resp)
                              /\ idx' = idx
                         ELSE /\ StartFetch(call.owner, call.repo, commits[idx + 1].url, "commit")
                              /\ idx' = idx + 1
                              /\ UNCHANGED <<result, missed>>
    /\ UNCHANGED <<locale, call, fsAtCall, context, beyondFetcher>>

Init == \E enc \in {"utf-8", "cp1252"}, token \in {NoToken, Token} : StartWith(enc, token)

Next ==
    \/ \E n \in CallNumbers : CallFetchPr(Owner, Repo, n) /\ UNCHANGED mainVars
    \/ \E resp \in Serve(call.owner, call.repo, full_url) : StepPr(resp) /\ UNCHANGED mainVars
    \/ \E resp \in Serve(call.owner, call.repo, full_url) :
          StepCommits(resp) /\ UNCHANGED mainVars
    \/ \E resp \in Serve(call.owner, call.repo, full_url) :
          StepCommit(resp) /\ UNCHANGED mainVars

Spec == Init /\ [][Next]_vars

\* fetch_pr called for pull requests of several repositories.
Repositories == {[owner |-> Owner, repo |-> Repo], RepoAlpha, RepoBeta}

InitRepos == Start("utf-8")

NextRepos ==
    \/ \E r \in Repositories, n \in PRs : CallFetchPr(r.owner, r.repo, n) /\ UNCHANGED mainVars
    \/ \E resp \in Serve(call.owner, call.repo, full_url) : StepPr(resp) /\ UNCHANGED mainVars
    \/ \E resp \in Serve(call.owner, call.repo, full_url) :
          StepCommits(resp) /\ UNCHANGED mainVars
    \/ \E resp \in Serve(call.owner, call.repo, full_url) :
          StepCommit(resp) /\ UNCHANGED mainVars

SpecRepos == InitRepos /\ [][NextRepos]_vars

NextAssemble ==
    \/ Next
    \/ \E n \in CallNumbers : CallAssemble(Owner, Repo, n) /\ UNCHANGED mainVars

SpecAssemble == Init /\ [][NextAssemble]_vars

\* src/main.py, lines 79-81: the command line names a repository without a pull
\* request.  The branch evaluates the attribute pull_request_fetcher.__fetch and
\* calls nothing.
MainFullRepo(owner, repo) ==
    /\ pc = "idle"
    /\ call' = [op |-> "main_full", owner |-> owner, repo |-> repo, endpoint |-> <<>>,
                number |-> 0]
    /\ requests' = <<>>
    /\ arrived' = <<>>
    /\ outcome' = "returned"
    /\ error' = NoError
    /\ result' = NoRecord
    /\ UNCHANGED missed
    /\ fsAtCall' = fs
    /\ context' = NoContext
    /\ UNCHANGED <<fs, locale, pc, full_url, rel, responseJson, asmVars, beyondFetcher>>

NextMain ==
    \/ Next
    \/ MainFullRepo(Owner, Repo) /\ UNCHANGED mainVars

SpecMain == Init /\ [][NextMain]_vars

-----------------------------------------------------------------------------
(* src/main.py and src/bot.py: the batch driver over potential_prs.txt     *)
(* (lines 20-64), the single pull request of the command line (lines       *)
(* 68-78), analyze and bot.send.  One run of main.py; the waits of lines    *)
(* 52 and 61 change nothing the run reads.                                  *)

\* Lines of potential_prs.txt the run may read.
MaxLines == 3

\* What main.py and bot.py leave to the fetcher's steps.
beyondMain == <<fs, locale, pc, call, full_url, rel, responseJson, requests, arrived,
                outcome, error, pr, pr_obj, commits, idx, result, missed, fsAtCall, context,
                beyondFetcher>>

\* A line of the file: a comment, or owner/repo:number.
Comment == [comment |-> TRUE, number |-> 0]
Entries == {Comment} \cup {[comment |-> FALSE, number |-> n] : n \in CallNumbers}

\* bot.py, lines 25-26: the message send appends for one pull request.
HumanMessage(record) == Message3("human", "prompt_content -- PR CONTENT START --", record)

\* bot.py, lines 27-32: chat_history when send is left; the finally clause pops the
\* message whether model.invoke returned or raised.
\* (AfterSendPopOnReturn is the faulty variant without the finally clause.)
AfterSendPopOnReturn(history, returned) ==
    IF returned THEN SubSeq(history, 1, Len(history) - 1) ELSE history

AfterSend(history, returned) == SubSeq(history, 1, Len(history) - 1)

\* What model.invoke may do: return, or raise anthropic.InternalServerError
\* (overloaded or not) or anthropic.BadRequestError (prompt too long or not).
ModelOutcomes == {"returned", "overloaded", "server", "too_long", "bad_request"}
AnthropicError(how) ==
    [type |-> IF how \in {"overloaded", "server"} THEN "InternalServerError"
              ELSE "BadRequestError",
     status |-> 0]

\* main.py, lines 46-47 and 74-75: the status for which an HTTPError is reported
\* and not raised again.
\* (ReportedAnyStatus is the faulty variant that swallows every HTTPError.)
ReportedAnyStatus(status) == TRUE

Reported(status) == status = 404

\* Lines 60-63: the entry is done; the loop goes on unless the limit is used up.
\* The single pull request of the command line ends the run.
EndEntry ==
    /\ raised' = raised
    /\ IF mode = "batch"
       THEN /\ limit' = limit - 1
            /\ mpc' = IF limit - 1 = 0 THEN "done" ELSE "read"
       ELSE /\ limit' = limit
            /\ mpc' = "done"

\* An exception leaves main.py.
Abort(err) ==
    /\ mpc' = "aborted"
    /\ raised' = err
    /\ limit' = limit

\* Lines 20-26: main.py without argument.
MainBatch ==
    /\ mpc = "idle" /\ pc = "idle"
    /\ mpc' = "read"
    /\ mode' = "batch"
    /\ UNCHANGED <<line, limit, printed, raised, chat_history, invoked, beyondMain>>

\* Lines 27-37: the next line of the file; fetch_pr is called for an entry.
ReadLine(entry) ==
    /\ mpc = "read" /\ pc = "idle"
    /\ line < MaxLines
    /\ line' = line + 1
    /\ IF entry.comment
       THEN UNCHANGED <<mpc, beyondMain>>
       ELSE /\ mpc' = "fetch"
            /\ CallFetchPr(Owner, Repo, entry.number)
    /\ UNCHANGED <<mode, limit, printed, raised, chat_history, invoked>>

\* Line 27 and line 64: the file has no further line.
EndOfFile ==
    /\ mpc = "read"
    /\ mpc' = "done"
    /\ UNCHANGED <<mode, line, limit, printed, raised, chat_history, invoked, beyondMain>>

\* Lines 68-72: main.py owner/repo:number.
MainSingle(owner, repo, n) ==
    /\ mpc = "idle" /\ pc = "idle"
    /\ mpc' = "fetch"
    /\ mode' = "single"
    /\ CallFetchPr(owner, repo, n)
    /\ UNCHANGED <<line, limit, printed, raised, chat_history, invoked>>

\* Lines 37-49 and 72-78: fetch_pr has returned, or raised; an HTTPError is
\* caught, any other exception of fetch_pr is not.
AfterFetch ==
    /\ mpc = "fetch" /\ pc = "idle"
    /\ IF outcome = "returned"
       THEN /\ mpc' = "analyze"
            /\ UNCHANGED <<limit, printed, raised>>
       ELSE IF error.type = "HTTPError" /\ Reported(error.status)
       THEN /\ printed' = Append(printed, [kind |-> "cannot access", number |-> call.number])
            /\ EndEntry
       ELSE /\ Abort(error)
            /\ UNCHANGED printed
    /\ UNCHANGED <<mode, line, chat_history, invoked, beyondMain>>

\* Lines 16-18 with bot.send, lines 24-32, and the except clauses of lines 50-59.
Analyze(how) ==
    /\ mpc = "analyze"
    /\ LET sent == Append(chat_history, HumanMessage(result))
       IN  /\ invoked' = sent
           /\ chat_history' = AfterSend(sent, how = "returned")
    /\ IF how = "returned"
       THEN /\ printed' = Append(printed, [kind |-> "analysis", number |-> result.PR_NUMBER])
            /\ EndEntry
       ELSE IF mode = "batch" /\ how = "overloaded"
       THEN /\ printed' = Append(printed, [kind |-> "anthropic error", number |-> result.PR_NUMBER])
            /\ EndEntry
       ELSE IF mode = "batch" /\ how = "too_long"
       THEN /\ printed' = Append(printed, [kind |-> "skipping", number |-> result.PR_NUMBER])
            /\ EndEntry
       ELSE /\ Abort(AnthropicError(how))
            /\ UNCHANGED printed
    /\ UNCHANGED <<mode, line, beyondMain>>

InitBatch == Start("utf-8")

NextBatch ==
    \/ MainBatch
    \/ \E entry \in Entries : ReadLine(entry)
    \/ EndOfFile
    \/ \E n \in CallNumbers : MainSingle(Owner, Repo, n)
    \/ \E resp \in Serve(call.owner, call.repo, full_url) :
          mpc = "fetch" /\ StepPr(resp) /\ UNCHANGED mainVars
    \/ \E resp \in Serve(call.owner, call.repo, full_url) :
          mpc = "fetch" /\ StepCommits(resp) /\ UNCHANGED mainVars
    \/ \E resp \in Serve(call.owner, call.repo, full_url) :
          mpc = "fetch" /\ StepCommit(resp) /\ UNCHANGED mainVars
    \/ AfterFetch
    \/ \E how \in ModelOutcomes : Analyze(how)

SpecBatch == InitBatch /\ [][NextBatch]_vars

-----------------------------------------------------------------------------
(* SpecConcurrent: two runs of the program call fetch_pr on the same cache *)
(* directory at the same time.  The code takes no lock, so a run's steps are *)
(* its accesses to the cache file: the load of __get_cached_file, the load  *)
(* of line 117, the truncating open of line 121 and the write of line 123.  *)
(* The requests of a run touch nothing shared and are one step.             *)

\* The record __fetch_pr assembles for pull request n when the upstream answers
\* every request, the title being t.
WorldRecord(owner, repo, n, t) ==
    [PR_NUMBER |-> n, PR_TITLE |-> t, PR_BODY |-> Body(owner, repo),
     COMMITS |-> [i \in 1..Len(WorldCommits(n)) |->
                    CommitObj(CommitEntry(owner, repo, WorldCommits(n)[i]),
                              [files |-> WorldFiles(WorldCommits(n)[i])])]]

\* The bytes json.dumps writes for a list whose elements take the given numbers of
\* bytes: the elements and ", " between them.
RECURSIVE JoinedSize(_)
JoinedSize(sizes) ==
    IF sizes = <<>> THEN 0
    ELSE sizes[1] + (IF Len(sizes) > 1 THEN 2 ELSE 0) + JoinedSize(Tail(sizes))

\* Lines 122-123: the number of bytes written for a file object, a commit object,
\* a record with a one-digit number, and the array of records.
FileObjSize(f) == 35 + Len(f.FILE_NAME) + Len(f.FILE_PATCH)
CommitObjSize(c) ==
    42 + Len(c.COMMIT_MESSAGE)
       + JoinedSize([j \in 1..Len(c.COMMIT_FILES) |-> FileObjSize(c.COMMIT_FILES[j])])
RecordSize(r) ==
    62 + Len(r.PR_TITLE) + Len(r.PR_BODY)
       + JoinedSize([i \in 1..Len(r.COMMITS) |-> CommitObjSize(r.COMMITS[i])])
DumpSize(stored) == 2 + JoinedSize([i \in 1..Len(stored) |-> RecordSize(stored[i])])

\* The size of a cache file: a corrupt file with no records is the empty file the
\* open of line 121 leaves; any other corrupt file has the size of the records it
\* is made of.
FileBytes(files, bad, name) ==
    IF ~Exists(files, name) \/ (name \in bad /\ files[name] = <<>>) THEN 0
    ELSE DumpSize(files[name])

\* Whether some run other than p is inside a call.
OthersIdle(p) == \A q \in Procs \ {p} : procs[q].pc = "idle"

\* Run p calls fetch_pr(owner, repo, n): line 72.
PCall(p, owner, repo, n) ==
    /\ procs[p].pc = "idle"
    /\ IF Exists(fs, CacheFileName(owner, repo))
       THEN Len(fs[CacheFileName(owner, repo)]) < MaxCache
       ELSE TRUE
    /\ procs' = [q \in Procs |->
                   IF q = p
                   THEN [IdleProc EXCEPT !.pc = "lookup", !.number = n, !.alone = OthersIdle(p)]
                   ELSE IF procs[q].pc = "idle" THEN procs[q]
                   ELSE [procs[q] EXCEPT !.alone = FALSE]]
    /\ UNCHANGED <<fs, corrupt>>

\* Run p leaves its call with an exception.
PRaise(p, type) ==
    procs' = [procs EXCEPT ![p].pc = "idle", ![p].outcome = "raised", ![p].error = type]

\* Lines 73-81 with __get_cached_file, lines 18-23: json.load raises on a file
\* that is no complete JSON document.
PLookup(p, owner, repo) ==
    /\ procs[p].pc = "lookup"
    /\ IF CacheFileName(owner, repo) \in corrupt
       THEN PRaise(p, "JSONDecodeError")
       ELSE LET found == CacheHit(GetCachedFile(fs, owner, repo).prs, procs[p].number)
            IN  IF found.hit
                THEN procs' = [procs EXCEPT ![p].pc = "idle", ![p].outcome = "returned",
                                            ![p].pr_obj = found.record]
                ELSE procs' = [procs EXCEPT ![p].pc = "assemble"]
    /\ UNCHANGED <<fs, corrupt>>

\* Lines 84-112: the requests of __fetch_pr, answered in full or ended by a failure.
PAssemble(p, owner, repo, answer) ==
    /\ procs[p].pc = "assemble"
    /\ IF answer.ok /\ procs[p].number \in PRs
       THEN procs' = [procs EXCEPT ![p].pc = "reread",
                        ![p].pr_obj = WorldRecord(owner, repo, procs[p].number, answer.title)]
       ELSE PRaise(p, "HTTPError")
    /\ UNCHANGED <<fs, corrupt>>

\* Lines 114-119: the file is read again, in the default encoding, and the record
\* appended to what was read.
PReread(p, owner, repo) ==
    LET name == CacheFileName(owner, repo)
    IN  /\ procs[p].pc = "reread"
        /\ IF ~Exists(fs, name)
           THEN procs' = [procs EXCEPT ![p].pc = "open", ![p].cached_prs = <<procs[p].pr_obj>>]
           ELSE IF name \in corrupt THEN PRaise(p, "JSONDecodeError")
           ELSE IF ~LoadDefined(locale, fs[name]) THEN PRaise(p, "UnicodeDecodeError")
           ELSE procs' = [procs EXCEPT ![p].pc = "open",
                            ![p].cached_prs = Appended(fs[name], locale, procs[p].pr_obj)]
        /\ UNCHANGED <<fs, corrupt>>

\* Line 121: open(..., "wb") creates the file or cuts it to no bytes.
POpen(p, owner, repo) ==
    /\ procs[p].pc = "open"
    /\ fs' = WriteFile(fs, CacheFileName(owner, repo), <<>>)
    /\ corrupt' = corrupt \cup {CacheFileName(owner, repo)}
    /\ procs' = [procs EXCEPT ![p].pc = "write"]

\* Lines 122-125: the bytes are written from the start of the file.  Bytes another
\* run wrote since line 121 stay behind the new ones where the new text is
\* shorter, and the file is then no JSON document.
PWrite(p, owner, repo) ==
    LET name == CacheFileName(owner, repo)
        text == Dumps(procs[p].cached_prs)
    IN  /\ procs[p].pc = "write"
        /\ IF DumpSize(text) >= FileBytes(fs, corrupt, name)
           THEN /\ fs' = WriteFile(fs, name, text)
                /\ corrupt' = corrupt \ {name}
           ELSE /\ fs' = fs
                /\ corrupt' = corrupt \cup {name}
        /\ procs' = [procs EXCEPT ![p].pc = "idle", ![p].outcome = "returned",
                                  ![p].wrote = TRUE]

\* What the runs leave alone.
beyondProcs == <<locale, pc, call, full_url, rel, responseJson, requests, arrived,
                 outcome, error, pr, pr_obj, commits, idx, result, missed, fsAtCall, context,
                 GITHUB_TOKEN, searchVars, mainVars>>

Answers == {[ok |-> TRUE, title |-> t] : t \in Titles} \cup {[ok |-> FALSE, title |-> <<>>]}

InitConcurrent == \E enc \in {"utf-8", "cp1252"} : Start(enc)

NextConcurrent ==
    \/ \E p \in Procs, n \in CallNumbers : PCall(p, Owner, Repo, n) /\ UNCHANGED beyondProcs
    \/ \E p \in Procs : PLookup(p, Owner, Repo) /\ UNCHANGED beyondProcs
    \/ \E p \in Procs, answer \in Answers :
          PAssemble(p, Owner, Repo, answer) /\ UNCHANGED beyondProcs
    \/ \E p \in Procs : PReread(p, Owner, Repo) /\ UNCHANGED beyondProcs
    \/ \E p \in Procs : POpen(p, Owner, Repo) /\ UNCHANGED beyondProcs
    \/ \E p \in Procs : PWrite(p, Owner, Repo) /\ UNCHANGED beyondProcs

SpecConcurrent == InitConcurrent /\ [][NextConcurrent]_vars

-----------------------------------------------------------------------------
(* src/githubSearch.py: GitHubSecurityScanner, its rate governor           *)
(* (check_rate_limit, update_rate_limit) and the search traversal           *)
(* search_security_prs.  Time is counted in whole seconds.                  *)

\* The clock stops at MaxClock; the upstream has results on fewer than
\* MaxSearchPages pages.
MaxClock == 12
MaxSearchPages == 3

\* What the fetcher's variables are to the scanner.
beyondSearch == <<fs, locale, pc, call, full_url, rel, responseJson, requests, arrived,
                  outcome, error, pr, pr_obj, commits, idx, result, missed, fsAtCall, context,
                  GITHUB_TOKEN, corrupt, procs, mainVars>>

\* Lines 28 and 30: the two conditions under which check_rate_limit sleeps, on the
\* clock reading t.
\* (BlocksWhenResetAhead is the faulty variant that does not look at the count.)
BlocksWhenResetAhead(remaining, reset, t) == ~remaining.none /\ reset.v > t

Blocks(remaining, reset, t) == ~remaining.none /\ remaining.v < 10 /\ reset.v > t

\* Line 31: sleep_time.
\* (SleepTimeToReset is the faulty variant without the extra second.)
SleepTimeToReset(reset, t) == reset.v - t

SleepTime(reset, t) == reset.v - t + 1

\* Lines 37-38: int(response.headers.get(name, 0)).
\* (HeaderIntMissingAsAmple is the faulty variant whose default is not 0.)
HeaderIntMissingAsAmple(headers, name) == IF name \in DOMAIN headers THEN headers[name] ELSE 50

HeaderInt(headers, name) == IF name \in DOMAIN headers THEN headers[name] ELSE 0

\* The rate-limit headers the upstream may send.
RemainingValues == {0, 9, 10, 50}
ResetValues == {0, 5, MaxClock - 2}
RateHeaders ==
    {NoHeaders}
    \cup {NoHeaders @@ ("X-RateLimit-Remaining" :> r) : r \in RemainingValues}
    \cup {NoHeaders @@ ("X-RateLimit-Remaining" :> r) @@ ("X-RateLimit-Reset" :> t) :
            r \in RemainingValues, t \in ResetValues}

\* The items of page k of the search results.
SearchItems(k) == <<[number |-> 10 * k + 1], [number |-> 10 * k + 2]>>

\* The responses the upstream may give to the request for page k.
SearchResponses(k) ==
    {[status |-> st, headers |-> h, items |-> <<>>] :
        st \in {200, 403, 422}, h \in RateHeaders}
    \cup (IF k < MaxSearchPages
          THEN {[status |-> 200, headers |-> h, items |-> SearchItems(k)] : h \in RateHeaders}
          ELSE {})

\* Lines 58 and 64: the responses after which the traversal ends.
\* (EndsOnFailureOnly is the faulty variant that goes on after an empty page.)
EndsOnFailureOnly(resp) == resp.status # 200

Ends(resp) == resp.status # 200 \/ resp.items = <<>>

\* search_security_prs(query) is entered: line 44.
StartSearch ==
    /\ spc \in {"idle", "done"}
    /\ spc' = "check"
    /\ search_page' = 1
    /\ searched' = <<>>
    /\ yielded' = <<>>
    /\ slept' = 0
    /\ checkedAt' = now
    /\ UNCHANGED <<rate_limit_remaining, rate_limit_reset, now, received, beyondSearch>>

\* Line 46 and lines 26-33: check_rate_limit; time.sleep returns after the time
\* asked for, or up to a second later.
CheckRateLimit ==
    /\ spc = "check"
    /\ spc' = "get"
    /\ checkedAt' = now
    /\ IF Blocks(rate_limit_remaining, rate_limit_reset, now)
       THEN /\ slept' = SleepTime(rate_limit_reset, now)
            /\ \E late \in 0..1 :
                  /\ now + SleepTime(rate_limit_reset, now) + late <= MaxClock
                  /\ now' = now + SleepTime(rate_limit_reset, now) + late
       ELSE /\ slept' = 0
            /\ now' = now
    /\ UNCHANGED <<rate_limit_remaining, rate_limit_reset, search_page, searched, received,
                   yielded, beyondSearch>>

\* Lines 48-70: the request for the page, update_rate_limit, and the end of the
\* traversal or the items yielded and the next page.
SearchGet(resp) ==
    /\ spc = "get"
    /\ searched' = Append(searched, search_page)
    /\ received' = resp
    /\ rate_limit_remaining' = Some(HeaderInt(resp.headers, "X-RateLimit-Remaining"))
    /\ rate_limit_reset' = Some(HeaderInt(resp.headers, "X-RateLimit-Reset"))
    /\ IF Ends(resp)
       THEN /\ spc' = "done"
            /\ UNCHANGED <<search_page, yielded>>
       ELSE /\ spc' = "check"
            /\ yielded' = yielded \o resp.items
            /\ search_page' = search_page + 1
    /\ UNCHANGED <<now, slept, checkedAt, beyondSearch>>

\* A second passes.
Tick ==
    /\ now < MaxClock
    /\ now' = now + 1
    /\ UNCHANGED <<rate_limit_remaining, rate_limit_reset, search_page, spc, slept,
                   checkedAt, searched, received, yielded, beyondSearch>>

InitSearch == Start("utf-8")

NextSearch ==
    \/ StartSearch
    \/ CheckRateLimit
    \/ \E resp \in SearchResponses(search_page) : SearchGet(resp)
    \/ Tick

SpecSearch == InitSearch /\ [][NextSearch]_vars

-----------------------------------------------------------------------------
(* Claims about fetch_pr, checked under Spec (C9 under SpecAssemble).      *)

CacheName == CacheFileName(call.owner, call.repo)
\* The records of the cache file of the call's repository, as stored.
StoredNow == IF Exists(fs, CacheName) THEN fs[CacheName] ELSE <<>>
StoredAtCall == IF Exists(fsAtCall, CacheName) THEN fsAtCall[CacheName] ELSE <<>>
Numbers(stored) == [i \in 1..Len(stored) |-> stored[i].PR_NUMBER]
Count(stored, n) == Cardinality({i \in 1..Len(stored) : stored[i].PR_NUMBER = n})
IsPrefix(s, t) == Len(s) <= Len(t) /\ SubSeq(t, 1, Len(s)) = s
Ended(op) == call.op = op /\ pc = "idle"

\* The URLs that belong to pull request n: its detail, its commit listing and the
\* details of its commits, with their continuation pages.
UrlsOfPr(owner, repo, n) ==
    {PrUrl(owner, repo, n)}
    \cup {PageUrl(CommitsUrl(owner, repo, n), k) : k \in 1..Len(WorldCommits(n))}
    \cup UNION {{PageUrl(CommitUrl(owner, repo, WorldCommits(n)[i]), k) :
                    k \in 1..Len(WorldFiles(WorldCommits(n)[i]))} :
                  i \in 1..Len(WorldCommits(n))}

\* C5: fetch_pr for a number the cache file already holds returns the cached
\* record without a request and without writing the file.
C5_CacheHitNoRequests ==
    (call.op = "fetch_pr" /\ Count(StoredAtCall, call.number) > 0) =>
        /\ pc = "idle" /\ outcome = "returned"
        /\ requests = <<>>
        /\ fs = fsAtCall
        /\ \E i \in 1..Len(StoredNow) :
              /\ StoredNow[i].PR_NUMBER = call.number
              /\ MapRecord(result, "encode") = StoredNow[i]

\* C5 witness: pull request 2, cached second behind pull request 1 with a non-ASCII
\* title, has been asked for again.
C5_Witness ==
    /\ Ended("fetch_pr") /\ call.number = 2 /\ outcome = "returned"
    /\ Numbers(StoredAtCall) = <<1, 2>>
    /\ result.PR_NUMBER = 2 /\ result.PR_TITLE = TitleAccent
    /\ requests = <<>>

\* C6: fetch_pr for a number the non-empty cache lacks requests only that pull
\* request's URLs, never the pull-request listing, and leaves the cache file holding
\* the records it held, unchanged and in place, followed by one new record.
C6_MissAppendsOneRecord ==
    (/\ Ended("fetch_pr") /\ outcome = "returned"
     /\ StoredAtCall # <<>> /\ Count(StoredAtCall, call.number) = 0)
    => /\ \A k \in 1..Len(requests) :
             /\ requests[k] \in UrlsOfPr(call.owner, call.repo, call.number)
             /\ requests[k] # PullsListUrl(call.owner, call.repo)
       /\ requests # <<>>
       /\ StoredNow = Append(StoredAtCall, MapRecord(result, "encode"))
       /\ result.PR_NUMBER = call.number

\* C7: a call of fetch_pr that ends with an HTTP error or an identity mismatch
\* raised by one of its requests leaves the cache directory as it was when the call
\* began, and returns nothing.
C7_FailureLeavesCache ==
    (call.op = "fetch_pr" /\ outcome = "raised" /\ error.type \in {"HTTPError", "Exception"})
    => /\ fs = fsAtCall
       /\ pc = "idle"
       /\ result = NoRecord
       /\ requests # <<>>
       /\ \/ RaisesForStatus(arrived[Len(arrived)].status)
          \/ MismatchAt(Len(arrived))

\* C7 witness: with one record cached, the assembly of another pull request failed
\* on the detail of its second commit, after the first commit had been assembled.
C7_Witness ==
    /\ Ended("fetch_pr") /\ outcome = "raised" /\ error.type = "HTTPError"
    /\ StoredAtCall # <<>>
    /\ idx = 2 /\ Len(pr_obj.COMMITS) = 1

\* C8: no two records of the cache file carry the same PR_NUMBER.
C8_NumbersUnique ==
    \A f \in DOMAIN fs : \A i, j \in 1..Len(fs[f]) :
        fs[f][i].PR_NUMBER = fs[f][j].PR_NUMBER => i = j

\* C8 witness: two records are cached and a third call has been served from them.
C8_Witness ==
    /\ Ended("fetch_pr") /\ outcome = "returned"
    /\ Len(StoredAtCall) = 2 /\ Len(StoredNow) = 2
    /\ Count(StoredNow, call.number) = 1

\* C9: every completed __fetch_pr adds one record with the number it was called
\* for, also when the cache already holds records with that number.
C9_AppendDoesNotDeduplicate ==
    (Ended("__fetch_pr") /\ outcome = "returned") =>
        /\ Len(StoredNow) = Len(StoredAtCall) + 1
        /\ Count(StoredNow, call.number) = Count(StoredAtCall, call.number) + 1
        /\ StoredNow[Len(StoredNow)].PR_NUMBER = call.number

\* C9 witness: __fetch_pr has completed twice for pull request 2 and the cache file
\* holds two records numbered 2.
C9_Witness ==
    /\ Ended("__fetch_pr") /\ outcome = "returned" /\ call.number = 2
    /\ Count(StoredAtCall, 2) = 1
    /\ Numbers(StoredNow) = <<2, 2>>

\* C10: the cache file's contents when a call began are a prefix of its contents
\* at every later moment of the call and after it.
C10_CacheOnlyGrowsByAppending ==
    \A f \in DOMAIN fsAtCall : f \in DOMAIN fs /\ IsPrefix(fsAtCall[f], fs[f])

\* The record a call of fetch_pr is assembling or has assembled from the upstream.
Completed == Ended("fetch_pr") /\ outcome = "returned" /\ requests # <<>>
Assembled == IF Completed THEN result ELSE pr_obj
\* The files the upstream holds for the i-th commit of the call's pull request.
DetailFiles(i) == WorldFiles(WorldCommits(call.number)[i])
FileNames(files) == {files[j].filename : j \in 1..Len(files)}
Named(files, name) == CHOOSE j \in 1..Len(files) : files[j].filename = name

\* C11: in the record fetch_pr assembles, a commit's COMMIT_FILES holds a file of
\* the commit's detail if and only if its changes count is above 0 and it has a
\* patch; each file object carries that file's name and patch.
C11_OnlyChangedPatchedFiles ==
    call.op = "fetch_pr" =>
        \A i \in 1..Len(Assembled.COMMITS) :
            LET kept == Assembled.COMMITS[i].COMMIT_FILES
                files == DetailFiles(i)
            IN  /\ \A k \in 1..Len(files) :
                      (files[k].changes >= 1 /\ "patch" \in DOMAIN files[k])
                          <=> \E j \in 1..Len(kept) : kept[j].FILE_NAME = files[k].filename
                /\ \A j \in 1..Len(kept) : \E k \in 1..Len(files) :
                      /\ "patch" \in DOMAIN files[k]
                      /\ kept[j] = [FILE_NAME |-> files[k].filename, FILE_PATCH |-> files[k].patch]
                /\ \A j1, j2 \in 1..Len(kept) : kept[j1].FILE_NAME = kept[j2].FILE_NAME => j1 = j2

\* C11 witness: pull request 1 was assembled; the detail of its first commit held a
\* file with changes = 0 and a file without patch, and two of its four files stayed.
C11_Witness ==
    /\ Completed /\ call.number = 1
    /\ \E k \in 1..Len(DetailFiles(1)) : DetailFiles(1)[k].changes = 0
    /\ \E k \in 1..Len(DetailFiles(1)) : "patch" \notin DOMAIN DetailFiles(1)[k]
    /\ Len(DetailFiles(1)) = 4
    /\ Len(result.COMMITS[1].COMMIT_FILES) = 2
    /\ Len(result.COMMITS[2].COMMIT_FILES) = 1

\* C12: the record fetch_pr assembles lists the commits in the order of the commit
\* listing, and each commit's COMMIT_FILES in the order of the commit's detail,
\* whatever the number of pages they came in.
C12_ListingAndDetailOrder ==
    call.op = "fetch_pr" =>
        /\ Len(Assembled.COMMITS) <= Len(WorldCommits(call.number))
        /\ Completed => Len(result.COMMITS) = Len(WorldCommits(call.number))
        /\ \A i \in 1..Len(Assembled.COMMITS) :
              /\ Assembled.COMMITS[i].COMMIT_MESSAGE = Message(WorldCommits(call.number)[i])
              /\ LET kept == Assembled.COMMITS[i].COMMIT_FILES
                 IN  \A j1, j2 \in 1..Len(kept) :
                        /\ kept[j1].FILE_NAME \in FileNames(DetailFiles(i))
                        /\ j1 < j2 => Named(DetailFiles(i), kept[j1].FILE_NAME)
                                        < Named(DetailFiles(i), kept[j2].FILE_NAME)

\* C12 witness: pull request 1 was assembled from a commit listing of two pages
\* and a first commit whose detail came in four pages, of which the first and the
\* last held a retained file.
C12_Witness ==
    /\ Ended("fetch_pr") /\ outcome = "returned" /\ call.number = 1
    /\ Len(requests) = 1 + 2 + 4 + 1
    /\ Len(result.COMMITS) = 2
    /\ result.COMMITS[1].COMMIT_FILES[1].FILE_NAME = FileA.filename
    /\ result.COMMITS[1].COMMIT_FILES[2].FILE_NAME = FileD.filename

\* C13: a response of status 400 or above ends __fetch at once: it is the last
\* response of the call, no request follows it, and the call has raised an HTTP
\* error carrying that status.
C13_FailureNotRetried ==
    call.op = "__fetch" =>
        \A k \in 1..Len(arrived) :
            arrived[k].status >= 400 =>
                /\ k = Len(arrived)
                /\ Len(requests) = k
                /\ pc = "idle"
                /\ outcome = "raised"
                /\ error = [type |-> "HTTPError", status |-> arrived[k].status]

\* C13 witness: the first page arrived with a "next" link, the request for the
\* second page was answered 500, and the call raised after two requests.
C13_Witness ==
    /\ call.op = "__fetch" /\ pc = "idle" /\ outcome = "raised"
    /\ Len(requests) = 2
    /\ arrived[1].status = 200 /\ HasNextLink(arrived[1].headers)
    /\ arrived[2].status = 500
    /\ requests[2] = NextLinkUrl(arrived[1].headers)

-----------------------------------------------------------------------------
(* Claims about the rate governor, checked under SpecSearch.               *)

\* The governor has been consulted and the request it guards is about to be made.
Checked == spc = "get"

\* C14: check_rate_limit does not sleep when the recorded remaining count is 10
\* or more, whatever the reset time, nor when the recorded reset time is not
\* later than the clock, whatever the count.
C14_NoBlockWhenAmpleOrPast ==
    (Checked /\ (\/ rate_limit_remaining.none
                 \/ rate_limit_remaining.v >= 10
                 \/ rate_limit_reset.v <= checkedAt))
    => slept = 0

\* C14 witness: 50 calls remain, the reset time is ahead of the clock, and the
\* check has returned without sleeping.
C14_Witness ==
    /\ Checked /\ slept = 0
    /\ rate_limit_remaining = Some(50)
    /\ rate_limit_reset.v > now

\* C15: with fewer than 10 calls remaining and the reset time later than the clock
\* reading t, check_rate_limit sleeps reset - t + 1 seconds, and the request that
\* follows is made at reset + 1 or later.
C15_BlocksUntilAfterReset ==
    (/\ Checked /\ ~rate_limit_remaining.none /\ rate_limit_remaining.v < 10
     /\ rate_limit_reset.v > checkedAt)
    => /\ slept = rate_limit_reset.v - checkedAt + 1
       /\ now >= rate_limit_reset.v + 1
       /\ now >= checkedAt + slept

\* C15 witness: 9 calls remain and the reset time is 5 seconds ahead of the clock
\* reading: the check slept 6 seconds.
C15_Witness ==
    /\ Checked
    /\ rate_limit_remaining = Some(9)
    /\ rate_limit_reset.v = checkedAt + 5
    /\ slept = 6

-----------------------------------------------------------------------------
(* Claims about concurrent runs, checked under SpecConcurrent.             *)

\* The last call of run p returned after writing the cache file.
Stored(p) == procs[p].pc = "idle" /\ procs[p].outcome = "returned" /\ procs[p].wrote
SharedName == CacheFileName(Owner, Repo)

\* C16: no read of the cache file, by __get_cached_file or by line 117, meets a
\* file that is not a complete JSON array: json.load never raises a decode error.
C16_ReadsSeeCompleteArray ==
    \A p \in Procs : procs[p].error # "JSONDecodeError"

\* C17: two calls of fetch_pr for different numbers that did not overlap any
\* other call have both left their record in the cache file.  (The witness is the
\* lost update of two calls that did overlap.)
C17_SerializedKeepsBoth ==
    \A p, q \in Procs :
        (/\ p # q /\ Stored(p) /\ Stored(q)
         /\ procs[p].alone /\ procs[q].alone
         /\ procs[p].number # procs[q].number)
        => /\ SharedName \notin corrupt
           /\ Count(fs[SharedName], procs[p].number) = 1
           /\ Count(fs[SharedName], procs[q].number) = 1

\* C17 witness: two overlapping calls for pull requests 1 and 2 have both
\* returned, the cache file is a complete array, and it lacks one of the two.
C17_Witness ==
    \E p, q \in Procs :
        /\ Stored(p) /\ Stored(q)
        /\ procs[p].number = 1 /\ procs[q].number = 2
        /\ ~procs[p].alone /\ ~procs[q].alone
        /\ SharedName \notin corrupt
        /\ Count(fs[SharedName], 1) + Count(fs[SharedName], 2) = 1
        /\ Len(fs[SharedName]) = 1

-----------------------------------------------------------------------------
(* Claims about the token, the cache load and the command line.            *)

\* C18: a Context built while GITHUB_TOKEN is not set makes the call fail at once,
\* before any request is made with it.
C18_AbsentTokenFailsFast ==
    (call.op \in {"fetch_pr", "__fetch_pr"} /\ context # NoContext /\ context.token.none)
    => /\ pc = "idle" /\ outcome = "raised"
       /\ requests = <<>>

\* C19: what __get_cached_file gave the call of fetch_pr is None when the cache
\* file did not exist, which is not the empty list, and otherwise the array the
\* file held, record for record.
C19_LoadAbsentOrStored ==
    call.op = "fetch_pr" =>
        LET loaded == GetCachedFile(fsAtCall, call.owner, call.repo)
        IN  /\ ~Exists(fsAtCall, CacheName) =>
                  /\ loaded.none
                  /\ loaded # [none |-> FALSE, prs |-> <<>>]
            /\ Exists(fsAtCall, CacheName) =>
                  /\ ~loaded.none
                  /\ Len(loaded.prs) = Len(StoredAtCall)
                  /\ \A i \in 1..Len(StoredAtCall) :
                        MapRecord(loaded.prs[i], "encode") = StoredAtCall[i]

\* C19 witness: fetch_pr was called on a cache file of two records, one of them
\* with a non-ASCII title, and was served the second from what was loaded.
C19_Witness ==
    /\ Ended("fetch_pr") /\ outcome = "returned" /\ requests = <<>>
    /\ Len(StoredAtCall) = 2
    /\ StoredAtCall[1].PR_TITLE = Utf8(TitleAccent)
    /\ result = GetCachedFile(fsAtCall, call.owner, call.repo).prs[2]

\* C20: when the command line's repository form has run to its end, the cache
\* file of the repository holds a record of every pull request of the repository.
C20_BulkPersistsWholeSet ==
    (call.op = "main_full" /\ pc = "idle" /\ outcome = "returned")
    => /\ Exists(fs, CacheName)
       /\ \A n \in PRs : Count(StoredNow, n) >= 1

-----------------------------------------------------------------------------
(* Claims about the merge mode of __fetch, checked under SpecFetch.        *)

\* C21: the accumulated value of a __fetch call is a list exactly when the call's
\* first page was a list, the empty list included: no later page changes the mode.
C21_ModeFixedByFirstPage ==
    (call.op = "__fetch" /\ arrived # <<>> /\ outcome # "raised")
    => (IsList(arrived[1].body) <=> IsList(responseJson))

-----------------------------------------------------------------------------
(* Claims about main.py and bot.py, checked under SpecBatch.               *)

\* fetch_pr has raised an HTTPError and main.py has dealt with it.
HandledHttpError ==
    /\ call.op = "fetch_pr" /\ pc = "idle" /\ outcome = "raised"
    /\ error.type = "HTTPError"
    /\ mpc # "fetch"
Last(seq) == seq[Len(seq)]

\* C22: an HTTPError 404 of fetch_pr is reported as "cannot access" and the run
\* goes on (the batch reads on, the single form ends normally); an HTTPError of any
\* other status leaves main.py as that exception, and the run does nothing more.
C22_NotFoundReportedOthersAbort ==
    /\ [](HandledHttpError =>
            IF error.status = 404
            THEN /\ mpc \in (IF mode = "batch" THEN {"read", "done"} ELSE {"done"})
                 /\ raised = NoError
                 /\ printed # <<>>
                 /\ Last(printed) = [kind |-> "cannot access", number |-> call.number]
            ELSE /\ mpc = "aborted"
                 /\ raised = error)
    /\ [][mpc = "aborted" => UNCHANGED vars]_vars

\* C22 witness: the batch met a 404 on its first entry, reported it, and went on to
\* analyse the next entry.
C22_Witness ==
    /\ mode = "batch" /\ line = 2 /\ Len(printed) = 2
    /\ printed[1].kind = "cannot access"
    /\ printed[2].kind = "analysis"

\* C27: between calls of bot.send, whether the model call returned or raised,
\* chat_history holds exactly the three system messages; what a call hands to the
\* model is those three followed by the one human message of the pull request at
\* hand, and nothing of a pull request analysed before.
C27_ChatHistoryRestored ==
    /\ chat_history = SystemMessages
    /\ invoked # <<>> =>
          /\ Len(invoked) = 4
          /\ SubSeq(invoked, 1, 3) = SystemMessages
          /\ invoked[4] = HumanMessage(invoked[4].pr)
          /\ (mpc # "aborted" /\ printed # <<>> /\ Last(printed).kind # "cannot access") =>
                invoked[4].pr.PR_NUMBER = Last(printed).number

\* C27 witness: the model call for the first entry of the batch raised an overloaded
\* error, and the call for the second entry returned.
C27_Witness ==
    /\ mode = "batch" /\ Len(printed) = 2
    /\ printed[1].kind = "anthropic error"
    /\ printed[2].kind = "analysis" /\ printed[2].number # printed[1].number
    /\ invoked[4].pr.PR_NUMBER = printed[2].number
    /\ chat_history = SystemMessages

-----------------------------------------------------------------------------
(* Claims about the search traversal, checked under SpecSearch.            *)

\* The pages of the traversal so far that were answered 200 with items.
PagesYielded ==
    IF searched = <<>> THEN 0
    ELSE IF received.status = 200 /\ received.items # <<>> THEN Len(searched)
    ELSE Len(searched) - 1
RECURSIVE ItemsOfPages(_)
ItemsOfPages(n) == IF n = 0 THEN <<>> ELSE ItemsOfPages(n - 1) \o SearchItems(n)

\* C23: the traversal has requested pages 1, 2, 3, ... each once and in order; it
\* has ended exactly when its last response was not 200 or had no items, and then
\* requests nothing more; the items yielded are those of the pages before, each
\* once and in page order.
C23_PagesInOrderUntilFirstEnd ==
    spc # "idle" =>
        /\ searched = [i \in 1..Len(searched) |-> i]
        /\ spc \in {"check", "get"} => search_page = Len(searched) + 1
        /\ spc = "done" => search_page = Len(searched)
        /\ searched # <<>> =>
              (spc = "done" <=> (received.status # 200 \/ received.items = <<>>))
        /\ searched = <<>> => spc \in {"check", "get"}
        /\ yielded = ItemsOfPages(PagesYielded)

\* C23 witness: pages 1 and 2 had items, the request for page 3 was answered 403,
\* and the traversal ended after three requests with the four items yielded.
C23_Witness ==
    /\ spc = "done"
    /\ searched = <<1, 2, 3>>
    /\ received.status = 403
    /\ Len(yielded) = 4
    /\ yielded[1] = SearchItems(1)[1] /\ yielded[4] = SearchItems(2)[2]

\* The value of a rate-limit header of the last response, 0 when it is missing.
LastHeader(name) == IF name \in DOMAIN received.headers THEN received.headers[name] ELSE 0

\* C24: before the first response the governor's two values are None and the check
\* does not sleep; after a response of any status they are the values of that
\* response's headers, 0 for a missing one, and the check before the next request
\* sleeps or not according to those values.
C24_GovernorFollowsLastResponse ==
    /\ received = NoResponse =>
          /\ rate_limit_remaining = None /\ rate_limit_reset = None
          /\ slept = 0
    /\ received # NoResponse =>
          /\ rate_limit_remaining = Some(LastHeader("X-RateLimit-Remaining"))
          /\ rate_limit_reset = Some(LastHeader("X-RateLimit-Reset"))
          /\ Checked =>
                slept = IF /\ LastHeader("X-RateLimit-Remaining") < 10
                           /\ LastHeader("X-RateLimit-Reset") > checkedAt
                        THEN LastHeader("X-RateLimit-Reset") - checkedAt + 1
                        ELSE 0

\* C24 witness: a response of status 403 without a reset header and with 9 calls
\* remaining was the last one, and the check of the next traversal did not sleep.
C24_Witness ==
    /\ Checked /\ searched = <<>>
    /\ received.status = 403
    /\ "X-RateLimit-Reset" \notin DOMAIN received.headers
    /\ rate_limit_remaining = Some(9) /\ rate_limit_reset = Some(0)
    /\ slept = 0

-----------------------------------------------------------------------------
(* Repetition of fetch_pr, checked under Spec.                             *)

\* fetch_pr(Owner, Repo, n) has just returned, after a cache miss, the record of
\* pull request n with title t.
MissReturned(n, t) ==
    Completed /\ call.number = n /\ result = WorldRecord(Owner, Repo, n, t)

\* C25: once fetch_pr has returned record r for a repository's number n after a
\* cache miss, a call of fetch_pr for that repository and number is a call that has
\* returned r; such a call is never on its way to a request (a request is sent only
\* from a state where pc is not "idle"), so the later calls send none.
C25_RepeatedCallReturnsSameRecord ==
    \A m \in missed :
        (/\ call.op = "fetch_pr"
         /\ call.owner = m.owner /\ call.repo = m.repo /\ call.number = m.number)
        => /\ pc = "idle" /\ outcome = "returned"
           /\ result = m.record

\* Every record a cache miss returns is one of the records quantified over in C25.
C25_MissReturnsWorldRecord ==
    Completed => \E t \in Titles : MissReturned(call.number, t)

-----------------------------------------------------------------------------
(* Caches of several repositories, checked under SpecRepos.                *)

\* C26: the caches of distinct repositories are apart: a cache file holds only
\* pull requests of its repository, a call changes no file but the one of its
\* repository, and the record a call of fetch_pr returns is one of the repository
\* it was called for.
C26_CachesIsolated ==
    /\ \A p \in Repositories :
          LET name == CacheFileName(p.owner, p.repo)
          IN  Exists(fs, name) =>
                 \A i \in 1..Len(fs[name]) : fs[name][i].PR_BODY = Utf8(Body(p.owner, p.repo))
    /\ call.op = "fetch_pr" =>
          /\ \A f \in DOMAIN fs :
                f # CacheName => f \in DOMAIN fsAtCall /\ fs[f] = fsAtCall[f]
          /\ (pc = "idle" /\ outcome = "returned") =>
                result.PR_BODY = Body(call.owner, call.repo)
====
